---- MODULE Spec2Model ----
(***************************************************************************)
(* A model of the ElasticSearch storage handler of rest-layer-es           *)
(* (src/elastic.go, src/util.go, src/query.go).                            *)
(*                                                                         *)
(* The handler holds no state of its own: the state is the engine's index  *)
(* (one slot per document id, with the engine's internal version), the     *)
(* position and locals of every caller that is between the two round trips *)
(* of an Update or a Delete, and a record of the last operation that       *)
(* returned.  Every engine round trip is one atomic step of the engine.    *)
(***************************************************************************)
EXTENDS Integers, Sequences, FiniteSets, TLC

\* ------------------------------------------------------------------ bounds

\* The engine's internal version of a document never exceeds MaxVer.
MaxVer == 3

\* The longest batch handed to Insert.
MaxBatch == 2

\* Expressions in one list of a predicate, values in one In or NotIn, and
\* entries of one sort.
MaxNodes == 2

\* Documents in the index that Find searches.
MaxDocs == 11

\* The concurrent callers of the handler.
Procs == {"c1", "c2"}

\* The document ids of the index.
StrIds == {"a", "b"}

\* ------------------------------------------------------------ data model

\* Item.ID is an interface{} value: a Go string, or something else.
StringID(s) == [t |-> "string", v |-> s]

IntID == [t |-> "int", v |-> "7"]

IDs == {StringID(s) : s \in StrIds} \cup {IntID}

\* Strings that the code formats or compares are sequences of characters.
\* ETags: two plain ones, and two that contain a character JSON escapes.
T1 == <<"1">>

TB == <<"\\">>

TBB == <<"\\", "\\">>

Tags == {T1, TB, TBB}

\* Item.Updated: 0 is the zero time.
Now == 1

etagField == "_etag"

updatedField == "_updated"

\* A value held in an interface{}, as the entries of a payload and of a
\* document are: its dynamic type and the value.
GoString(s) == [t |-> "string", v |-> s]

GoTime(n) == [t |-> "time.Time", v |-> n]

\* d with key k set to v.
Put(d, k, v) == [x \in (DOMAIN d) \cup {k} |-> IF x = k THEN v ELSE d[x]]

\* The payloads of the items: the second lacks the field "bar" of the first.
PayloadOf(id, n) ==
    IF n = 1 THEN [id |-> id, foo |-> GoString("x"), bar |-> GoString("y")]
             ELSE [id |-> id, foo |-> GoString("z")]

MkItem(id, tag, n) ==
    [ID |-> id, ETag |-> tag, Updated |-> Now, Payload |-> PayloadOf(id, n)]

\* The items callers hand to Update and Delete.
Items == {MkItem(id, tag, n) : id \in IDs, tag \in Tags, n \in {1, 2}}

\* The items callers hand to Insert.
InsertItems == {MkItem(id, T1, 1) : id \in IDs}

RECURSIVE SeqsUpTo(_, _)
SeqsUpTo(S, n) ==
    IF n = 0 THEN {<<>>}
    ELSE LET shorter == SeqsUpTo(S, n - 1)
         IN  shorter \cup {Append(s, x) : s \in {t \in shorter : Len(t) = n - 1}, x \in S}

Batches == SeqsUpTo(InsertItems, MaxBatch)

\* ------------------------------------------------------------ util.go

\* buildDoc copying the payload whole, the identifier key with it.
buildDoc_KeepId(i) ==
    LET d0 == i.Payload
        d1 == IF i.ETag # <<>> THEN Put(d0, etagField, GoString(i.ETag)) ELSE d0
    IN  IF i.Updated # 0 THEN Put(d1, updatedField, GoTime(i.Updated)) ELSE d1

buildDoc(i) ==
    LET d0 == [k \in (DOMAIN i.Payload) \ {"id"} |-> i.Payload[k]]
        d1 == IF i.ETag # <<>> THEN Put(d0, etagField, GoString(i.ETag)) ELSE d0
    IN  IF i.Updated # 0 THEN Put(d1, updatedField, GoTime(i.Updated)) ELSE d1

\* buildItem with the reserved fields copied into the payload as well.
buildItem_KeepReserved(id, d) ==
    [ID |-> StringID(id),
     ETag |-> IF etagField \in DOMAIN d /\ d[etagField].t = "string"
              THEN d[etagField].v ELSE <<>>,
     Updated |-> IF updatedField \in DOMAIN d /\ d[updatedField].t = "time.Time"
                 THEN d[updatedField].v ELSE 0,
     Payload |-> [k \in DOMAIN d \cup {"id"} |->
                    IF k \in DOMAIN d THEN d[k] ELSE GoString(id)]]

\* buildItem: the type assertions d[etagField].(string) and
\* d[updatedField].(time.Time) leave the zero value when they fail.
buildItem(id, d) ==
    [ID |-> StringID(id),
     ETag |-> IF etagField \in DOMAIN d /\ d[etagField].t = "string"
              THEN d[etagField].v ELSE <<>>,
     Updated |-> IF updatedField \in DOMAIN d /\ d[updatedField].t = "time.Time"
                 THEN d[updatedField].v ELSE 0,
     Payload |-> [k \in ((DOMAIN d) \ {etagField, updatedField}) \cup {"id"} |->
                    IF k \in DOMAIN d THEN d[k] ELSE GoString(id)]]

\* Go error values, all of one shape: what the engine client returns
\* (elastic.Error with an HTTP status, elastic.ErrorDetails of a bulk entry,
\* a context error) and what the handler returns (the resource.Err* values,
\* context errors, and opaque errors made by errors.New / fmt.Errorf).
GoErr(kind, status, type, msg, item) ==
    [kind |-> kind, status |-> status, type |-> type, msg |-> msg, item |-> item]

Nil == GoErr("nil", 0, "", "", 0)

ElasticError(status) == GoErr("elastic.Error", status, "", "", 0)

ErrorDetails(type) == GoErr("elastic.ErrorDetails", 0, type, "", 0)

ErrConflict == GoErr("resource.ErrConflict", 0, "", "", 0)

ErrNotFound == GoErr("resource.ErrNotFound", 0, "", "", 0)

ErrNotImplemented == GoErr("resource.ErrNotImplemented", 0, "", "", 0)

DeadlineExceeded == GoErr("context.DeadlineExceeded", 0, "", "", 0)

Canceled == GoErr("context.Canceled", 0, "", "", 0)

\* errors.New(msg) and fmt.Errorf(msg + ": %v", cause): the cause is printed
\* into the message, the new value is none of the classified ones.
Opaque(msg, item) == GoErr("opaque", 0, "", msg, item)

NonStringID == Opaque("non string IDs are not supported with ElasticSearch", 0)

\* elastic.IsTimeout, elastic.IsConflict, elastic.IsNotFound look at the
\* HTTP status of an *elastic.Error and know no other type.
IsTimeout(e) == e.kind = "elastic.Error" /\ e.status = 408

IsConflict(e) == e.kind = "elastic.Error" /\ e.status = 409

IsNotFound(e) == e.kind = "elastic.Error" /\ e.status = 404

\* isConflict without its look at the type of an elastic.ErrorDetails.
isConflict_StatusOnly(e) == IsConflict(e)

isConflict(e) ==
    IF IsConflict(e) THEN TRUE
    ELSE IF e.kind = "elastic.ErrorDetails"
         THEN e.type = "version_conflict_engine_exception"
         ELSE FALSE

\* translateError without its last branch: a not-found is left unhandled.
translateError_NoNotFound(e) ==
    IF IsTimeout(e) THEN [handled |-> TRUE, err |-> DeadlineExceeded]
    ELSE IF isConflict(e) THEN [handled |-> TRUE, err |-> ErrConflict]
    ELSE [handled |-> FALSE, err |-> e]

\* translateError(&err): whether it handled the error, and the error after.
translateError(e) ==
    IF IsTimeout(e) THEN [handled |-> TRUE, err |-> DeadlineExceeded]
    ELSE IF isConflict(e) THEN [handled |-> TRUE, err |-> ErrConflict]
    ELSE IF IsNotFound(e) THEN [handled |-> TRUE, err |-> ErrNotFound]
    ELSE [handled |-> FALSE, err |-> e]

\* if !translateError(&err) { err = fmt.Errorf(msg + ": %v", err) }
Classify(e, msg) ==
    LET t == translateError(e)
    IN  IF t.handled THEN t.err ELSE Opaque(msg, 0)

\* A context: whether it carries a deadline, and what ctx.Err() returns.
Background == [err |-> Nil, deadline |-> FALSE]

WithDeadline == [err |-> Nil, deadline |-> TRUE]

Expired == [err |-> DeadlineExceeded, deadline |-> TRUE]

Cancelled == [err |-> Canceled, deadline |-> TRUE]

Contexts == {Background, WithDeadline, Expired}

\* ctxTimeout(ctx) != "": the request gets a timeout parameter.
ctxTimeout(ctx) == ctx.deadline

\* ------------------------------------------------------------ query.go

\* Values of a predicate are interface{} values too.
GoNumber(n) == [t |-> "float64", v |-> n]

GoNil == [t |-> "nil", v |-> 0]

\* The expressions of a query.Predicate, all of one shape: a leaf has a field
\* and a value (In and NotIn: a list of values), And and Or have a list of
\* sub-expressions.  Regex stands for the expressions without a case in the
\* type switch of translatePredicate.
Leaf(o, field, value) ==
    [op |-> o, field |-> field, value |-> value, values |-> <<>>, exps |-> <<>>]

SetLeaf(o, field, values) ==
    [op |-> o, field |-> field, value |-> GoNil, values |-> values, exps |-> <<>>]

Composite(o, exps) ==
    [op |-> o, field |-> "", value |-> GoNil, values |-> <<>>, exps |-> exps]

\* The queries of the engine client, as the constructors of elastic.v5 build
\* them.  A range query starts with both bounds open and included.
NilQuery == [q |-> "nil"]

NewTermQuery(name, value) == [value |-> value, q |-> "term", name |-> name]

NewTermsQuery(name, values) == [values |-> values, q |-> "terms", name |-> name]

NewRangeQuery(name) ==
    [q |-> "range", name |-> name, from |-> GoNil, to |-> GoNil,
     includeLower |-> TRUE, includeUpper |-> TRUE]

Gt(r, v) == [r EXCEPT !.from = v, !.includeLower = FALSE]

Gte(r, v) == [r EXCEPT !.from = v, !.includeLower = TRUE]

Lt(r, v) == [r EXCEPT !.to = v, !.includeUpper = FALSE]

Lte(r, v) == [r EXCEPT !.to = v, !.includeUpper = TRUE]

NewBoolQuery == [q |-> "bool", must |-> <<>>, should |-> <<>>, mustNot |-> <<>>]

Must(b, qs) == [b EXCEPT !.must = @ \o qs]

\* Should adding its queries to the must clauses.
Should_Must(b, qs) == [b EXCEPT !.must = @ \o qs]

Should(b, qs) == [b EXCEPT !.should = @ \o qs]

MustNot(b, qs) == [b EXCEPT !.mustNot = @ \o qs]

\* getField without its first branch: the identifier field gets the suffix.
getField_NoId(f, keyword) == IF keyword THEN f \o ".keyword" ELSE f

getField(f, keyword) ==
    IF f = "id" THEN "_id"
    ELSE IF keyword THEN f \o ".keyword"
    ELSE f

valuesToInterface(v) == [i \in 1..Len(v) |-> v[i]]

\* The range query of a comparison with the bounds of Gte for GreaterThan.
RangeOf_Inclusive(exp) ==
    LET r == NewRangeQuery(getField(exp.field, FALSE))
    IN  IF exp.op \in {"GreaterThan", "GreaterOrEqual"} THEN Gte(r, exp.value)
        ELSE IF exp.op = "LowerThan" THEN Lt(r, exp.value)
        ELSE Lte(r, exp.value)

\* translatePredicate, lines 93-104: the range query of a comparison.
RangeOf(exp) ==
    LET r == NewRangeQuery(getField(exp.field, FALSE))
    IN  IF exp.op = "GreaterThan" THEN Gt(r, exp.value)
        ELSE IF exp.op = "GreaterOrEqual" THEN Gte(r, exp.value)
        ELSE IF exp.op = "LowerThan" THEN Lt(r, exp.value)
        ELSE Lte(r, exp.value)

\* translatePredicate: the queries of the expressions of q in their order, or
\* the error of the first expression that has none (and then no query).
RECURSIVE translatePredicate(_)
translatePredicate(q) ==
    IF q = <<>> THEN [err |-> Nil, qs |-> <<>>]
    ELSE
      LET exp == Head(q)
          sub == translatePredicate(exp.exps)
          one ==
            CASE exp.op = "And" ->
                   IF sub.err # Nil THEN sub
                   ELSE [err |-> Nil, qs |-> <<Must(NewBoolQuery, sub.qs)>>]
              [] exp.op = "Or" ->
                   IF sub.err # Nil THEN sub
                   ELSE [err |-> Nil, qs |-> <<Should(NewBoolQuery, sub.qs)>>]
              [] exp.op = "In" ->
                   [err |-> Nil,
                    qs |-> <<NewTermsQuery(getField(exp.field, TRUE),
                                           valuesToInterface(exp.values))>>]
              [] exp.op = "NotIn" ->
                   [err |-> Nil,
                    qs |-> <<MustNot(NewBoolQuery,
                               <<NewTermsQuery(getField(exp.field, TRUE),
                                               valuesToInterface(exp.values))>>)>>]
              [] exp.op = "Equal" ->
                   [err |-> Nil,
                    qs |-> <<NewTermQuery(getField(exp.field, TRUE), exp.value)>>]
              [] exp.op = "NotEqual" ->
                   [err |-> Nil,
                    qs |-> <<MustNot(NewBoolQuery,
                               <<NewTermQuery(getField(exp.field, TRUE), exp.value)>>)>>]
              [] exp.op \in {"GreaterThan", "GreaterOrEqual", "LowerThan", "LowerOrEqual"} ->
                   [err |-> Nil, qs |-> <<RangeOf(exp)>>]
              [] OTHER -> [err |-> ErrNotImplemented, qs |-> <<>>]
          rest == translatePredicate(Tail(q))
      IN  IF one.err # Nil THEN [err |-> one.err, qs |-> <<>>]
          ELSE IF rest.err # Nil THEN rest
          ELSE [err |-> Nil, qs |-> one.qs \o rest.qs]

\* getQuery with every number of queries wrapped into a boolean query.
getQuery_AlwaysWrap(q) ==
    LET t == translatePredicate(q.Predicate)
    IN  IF t.err # Nil THEN [err |-> t.err, qry |-> NilQuery]
        ELSE [err |-> Nil, qry |-> Must(NewBoolQuery, t.qs)]

\* getQuery returning a new error made of the error of translatePredicate.
getQuery_WrapError(q) ==
    LET t == translatePredicate(q.Predicate)
    IN  IF t.err # Nil THEN [err |-> Opaque("query translation error", 0), qry |-> NilQuery]
        ELSE IF Len(t.qs) = 0 THEN [err |-> Nil, qry |-> NilQuery]
        ELSE IF Len(t.qs) = 1 THEN [err |-> Nil, qry |-> t.qs[1]]
        ELSE [err |-> Nil, qry |-> Must(NewBoolQuery, t.qs)]

\* getQuery: the query of a query.Query and the error.
getQuery(q) ==
    LET t == translatePredicate(q.Predicate)
    IN  IF t.err # Nil THEN [err |-> t.err, qry |-> NilQuery]
        ELSE IF Len(t.qs) = 0 THEN [err |-> Nil, qry |-> NilQuery]
        ELSE IF Len(t.qs) = 1 THEN [err |-> Nil, qry |-> t.qs[1]]
        ELSE [err |-> Nil, qry |-> Must(NewBoolQuery, t.qs)]

\* The sorters of the engine client: elastic.NewFieldSort sorts ascending.
NewFieldSort(name) == [name |-> name, sorter |-> "field", ascending |-> TRUE]

Asc(s) == [s EXCEPT !.ascending = TRUE]

Desc(s) == [s EXCEPT !.ascending = FALSE]

\* A slice of sorters: nil, or made with a length.
NilSorters == [s |-> <<>>, nil |-> TRUE]

\* getSort with every entry ascending.
getSort_Ascending(q) ==
    IF Len(q.Sort) = 0 THEN NilSorters
    ELSE [s |-> [i \in 1..Len(q.Sort) |->
                   Asc(NewFieldSort(getField(q.Sort[i].Name, TRUE)))],
          nil |-> FALSE]

getSort(q) ==
    IF Len(q.Sort) = 0 THEN NilSorters
    ELSE [s |-> [i \in 1..Len(q.Sort) |->
                   IF q.Sort[i].Reversed
                   THEN Desc(NewFieldSort(getField(q.Sort[i].Name, TRUE)))
                   ELSE Asc(NewFieldSort(getField(q.Sort[i].Name, TRUE)))],
          nil |-> FALSE]

\* ------------------------------------------------------------ the engine

\* One slot of the index.  ver = 0: the engine knows nothing of the id;
\* exists = FALSE with ver > 0: the document was deleted and the engine still
\* remembers the version of the deletion.
Absent == [exists |-> FALSE, ver |-> 0, src |-> <<>>]

Tombstone(ver) == [exists |-> FALSE, ver |-> ver, src |-> <<>>]

Doc(ver, src) == [exists |-> TRUE, ver |-> ver, src |-> src]

\* What a search sees of the index: the documents as the last refresh of the
\* index found them.  The versions are no part of it.
View(st) == [x \in DOMAIN st |-> IF st[x].exists THEN Doc(0, st[x].src) ELSE Absent]

\* The refresh parameter of a write request: with "true" the engine refreshes
\* the index once it has applied the request, else the search goes on seeing
\* what it saw.
Refresh(flag, st, view, applied) ==
    IF flag = "true" /\ applied THEN View(st) ELSE view

\* The statuses with which the engine may fail a whole request.
RequestFaults == {408, 500}

\* Index request with op_type=create: refused when the document exists, else
\* the document is stored under the next version.
EngineCreate(slot, src) ==
    IF slot.exists
    THEN [status |-> 409, slot |-> slot]
    ELSE [status |-> 201, slot |-> Doc(slot.ver + 1, src)]

\* Index request with op_type=index: the document is stored under the next
\* version, over whatever was there.
EngineIndex(slot, src) ==
    [status |-> IF slot.exists THEN 200 ELSE 201, slot |-> Doc(slot.ver + 1, src)]

\* Get: 404 when there is no document, else the source and the version.
EngineGet(slot) ==
    IF slot.exists
    THEN [status |-> 200, ver |-> slot.ver, src |-> slot.src]
    ELSE [status |-> 404, ver |-> 0, src |-> <<>>]

\* A partial document merged into a stored one: the fields of the partial
\* document replace or extend the stored fields, the others are kept.
MergeDoc(old, part) ==
    [k \in (DOMAIN old) \cup (DOMAIN part) |->
        IF k \in DOMAIN part THEN part[k] ELSE old[k]]

\* Update request that stores the partial document when there is none
\* (doc_as_upsert).
EngineUpdate_Upsert(slot, part, ver) ==
    IF ~slot.exists THEN [status |-> 201, slot |-> Doc(slot.ver + 1, part)]
    ELSE IF ver # 0 /\ slot.ver # ver THEN [status |-> 409, slot |-> slot]
    ELSE [status |-> 200, slot |-> Doc(slot.ver + 1, MergeDoc(slot.src, part))]

\* Update request with a partial document and an expected version
\* (ver = 0: the request states none, and any version will do).
EngineUpdate(slot, part, ver) ==
    IF ~slot.exists THEN [status |-> 404, slot |-> slot]
    ELSE IF ver # 0 /\ slot.ver # ver THEN [status |-> 409, slot |-> slot]
    ELSE [status |-> 200, slot |-> Doc(slot.ver + 1, MergeDoc(slot.src, part))]

\* Delete request with an expected version (ver = 0: none stated).  The
\* engine compares the expected version with the one it remembers, also of a
\* deleted document, and counts the deletion as a write of its own.
EngineDelete(slot, ver) ==
    IF ver # 0 /\ slot.ver # ver THEN [status |-> 409, slot |-> slot]
    ELSE IF ~slot.exists THEN [status |-> 404, slot |-> Tombstone(slot.ver + 1)]
    ELSE [status |-> 200, slot |-> Tombstone(slot.ver + 1)]

\* The bulk operations built without OpType("create").
InsertOpType_Index == "index"

\* elastic.NewBulkIndexRequest().OpType("create")
InsertOpType == "create"

\* The bulk request: the index operations are applied one by one, in order,
\* each on its own; the response has one entry per operation.  rejected[k]
\* says that the engine refuses the k-th operation for a reason of its own
\* (a mapping error, say).
RECURSIVE BulkApply(_, _, _, _)
BulkApply(st, items, rejected, k) ==
    IF k > Len(items) THEN [store |-> st, resp |-> <<>>]
    ELSE LET id   == items[k].ID.v
             r    == IF rejected[k]
                     THEN [status |-> 400, slot |-> st[id]]
                     ELSE IF InsertOpType = "create"
                          THEN EngineCreate(st[id], buildDoc(items[k]))
                          ELSE EngineIndex(st[id], buildDoc(items[k]))
             rest == BulkApply([st EXCEPT ![id] = r.slot], items, rejected, k + 1)
             e    == IF r.status = 409
                     THEN ErrorDetails("version_conflict_engine_exception")
                     ELSE IF r.status = 400
                          THEN ErrorDetails("mapper_parsing_exception")
                          ELSE Nil
         IN  [store |-> rest.store,
              resp  |-> <<[status |-> r.status, item |-> k, error |-> e]>> \o rest.resp]

\* BulkResponse.Failed(): the entries whose status is not 2xx, in order.
Failed(resp) == SelectSeq(resp, LAMBDA r : r.status < 200 \/ r.status > 299)


\* The identifiers of the index in the order in which a search without a
\* sort lists them.
IdNames == <<"a", "b", "c", "d", "e", "f", "g", "h", "i", "j", "k", "l", "m">>

\* The number of hits of a search request that states no size.
DefaultSize == 10

Min(a, b) == IF a <= b THEN a ELSE b

\* The values a document has under an engine field: _id is its identifier,
\* f and f.keyword are the field f of its source.
FieldValues(name, id, src) ==
    IF name = "_id" THEN {GoString(id)}
    ELSE {src[k] : k \in {x \in DOMAIN src : name = x \/ name = x \o ".keyword"}}

\* Whether a document matches a query.
RECURSIVE EngineMatch(_, _, _)
EngineMatch(qry, id, src) ==
    CASE qry.q = "nil" -> TRUE
      [] qry.q = "term" -> \E v \in FieldValues(qry.name, id, src) : v = qry.value
      [] qry.q = "terms" ->
           \E v \in FieldValues(qry.name, id, src) :
              \E i \in 1..Len(qry.values) : v = qry.values[i]
      [] qry.q = "range" ->
           \E v \in FieldValues(qry.name, id, src) :
              /\ v.t = "float64"
              /\ qry.from = GoNil \/ v.v > qry.from.v
                   \/ (qry.includeLower /\ v.v = qry.from.v)
              /\ qry.to = GoNil \/ v.v < qry.to.v
                   \/ (qry.includeUpper /\ v.v = qry.to.v)
      [] qry.q = "bool" ->
           /\ \A i \in 1..Len(qry.must) : EngineMatch(qry.must[i], id, src)
           /\ \A i \in 1..Len(qry.mustNot) : ~EngineMatch(qry.mustNot[i], id, src)
           /\ \/ qry.should = <<>>
              \/ qry.must # <<>>
              \/ \E i \in 1..Len(qry.should) : EngineMatch(qry.should[i], id, src)

\* Search: the number of documents that match, and the hits from the
\* offset on, at most size of them.
RECURSIVE MatchingIds(_, _, _)
MatchingIds(st, qry, names) ==
    IF names = <<>> THEN <<>>
    ELSE LET x == Head(names)
         IN  (IF x \in DOMAIN st /\ st[x].exists /\ EngineMatch(qry, x, st[x].src)
              THEN <<x>> ELSE <<>>) \o MatchingIds(st, qry, Tail(names))

EngineSearch(st, qry, from, size) ==
    LET ids == MatchingIds(st, qry, IdNames)
        total == Len(ids)
        upto == Min(from + size, total)
    IN  [total |-> total,
         hits |-> [k \in 1..(IF upto > from THEN upto - from ELSE 0) |->
                     [Id |-> ids[from + k], Source |-> st[ids[from + k]].src]]]

\* Multi-get: one entry per requested identifier, in the order of the request.
EngineMultiGet(st, ids) ==
    [k \in 1..Len(ids) |->
        [Id |-> ids[k], Source |-> st[ids[k]].src, Found |-> st[ids[k]].exists]]

\* ------------------------------------------------------------ elastic.go

\* One engine call of an operation, as the operation's log keeps it: the API,
\* whether the request left the client, whether it carried a timeout
\* parameter, the version it was conditioned on (0: none) and the status of
\* the answer (0: none).
Call(api, sent, timeout, ver, status) ==
    [status |-> status, ver |-> ver, api |-> api, sent |-> sent, timeout |-> timeout]

\* JSON text is a sequence of characters.  A string value is written between
\* quotes with the quote and the backslash escaped by a backslash.
RECURSIVE JsonEscape(_)
JsonEscape(s) ==
    IF s = <<>> THEN <<>>
    ELSE LET c == Head(s)
         IN  (IF c = "\\" \/ c = "\"" THEN <<"\\", c>> ELSE <<c>>) \o JsonEscape(Tail(s))

EtagFieldChars == <<"_", "e", "t", "a", "g">>

\* res.Source of a Get whose source filter includes only the etag field.
FetchSource(src) ==
    IF etagField \in DOMAIN src
    THEN <<"{", "\"">> \o EtagFieldChars \o <<"\"", ":", "\"">>
            \o JsonEscape(src[etagField].v) \o <<"\"", "}">>
    ELSE <<"{", "}">>

\* `{"` + etagField + `":"` + etag + `"}`
ExpectedSource(etag) ==
    <<"{", "\"">> \o EtagFieldChars \o <<"\"", ":", "\"">> \o etag \o <<"\"", "}">>

\* client.Do(ctx) of one request: a context that is done fails the request in
\* the client, else the engine fails the whole request (fault) or answers.
DoError(ctx, fault, status) ==
    IF ctx.err # Nil THEN ctx.err
    ELSE IF fault # 0 THEN ElasticError(fault)
    ELSE IF status >= 200 /\ status <= 299 THEN Nil
    ELSE ElasticError(status)

\* validateEtag, given the slot the Get reads: the version and the error it
\* returns, and the call it made.
validateEtag(slot, etag, ctx, fault) ==
    LET get == EngineGet(slot)
        err == DoError(ctx, fault, get.status)
        call == Call("get", ctx.err = Nil, FALSE, 0,
                     IF ctx.err # Nil THEN 0 ELSE IF fault # 0 THEN fault ELSE get.status)
    IN  IF err # Nil
        THEN [err |-> Classify(err, "etag check error"), ver |-> 0, call |-> call]
        ELSE IF FetchSource(get.src) = ExpectedSource(etag)
             THEN [err |-> Nil, ver |-> get.ver, call |-> call]
             ELSE [err |-> ErrConflict, ver |-> 0, call |-> call]

\* id, ok := item.ID.(string)
IsStringID(item) == item.ID.t = "string"

\* Update and Delete without the check of the context.
CtxCheck_Skipped(ctx) == Nil

\* if ctx.Err() != nil { return ctx.Err() }
CtxCheck(ctx) == ctx.err

\* The write conditioned on the version after the one the fetch returned.
WriteVersion_Next(ver) == ver + 1

\* The write sent without .Version(ver).
WriteVersion_None(ver) == 0

\* The version Update and Delete condition their write on: ver of validateEtag.
WriteVersion(ver) == ver

\* The write of Update: client.Update()...Id(id).Doc(doc).Version(ver).Do(ctx)
UpdateDo(slot, item, ver, ctx, fault) ==
    IF ctx.err # Nil \/ fault # 0
    THEN [err |-> Classify(DoError(ctx, fault, 0), "update error"), slot |-> slot,
          call |-> Call("update", ctx.err = Nil, ctxTimeout(ctx), ver,
                        IF ctx.err # Nil THEN 0 ELSE fault)]
    ELSE LET r == EngineUpdate(slot, buildDoc(item), ver)
         IN  [err  |-> IF r.status = 200 THEN Nil
                       ELSE Classify(ElasticError(r.status), "update error"),
              slot |-> r.slot,
              call |-> Call("update", TRUE, ctxTimeout(ctx), ver, r.status)]

\* The write of Delete answered with success by an engine that keeps the
\* document.
DeleteDo_KeepDoc(slot, ver, ctx, fault) ==
    IF ctx.err # Nil \/ fault # 0
    THEN [err |-> Classify(DoError(ctx, fault, 0), "delete error"), slot |-> slot,
          call |-> Call("delete", ctx.err = Nil, ctxTimeout(ctx), ver,
                        IF ctx.err # Nil THEN 0 ELSE fault)]
    ELSE LET r == EngineDelete(slot, ver)
         IN  [err  |-> IF r.status = 200 THEN Nil
                       ELSE Classify(ElasticError(r.status), "delete error"),
              slot |-> IF r.status = 200 THEN slot ELSE r.slot,
              call |-> Call("delete", TRUE, ctxTimeout(ctx), ver, r.status)]

\* The write of Delete: client.Delete()...Id(id).Version(ver).Do(ctx)
DeleteDo(slot, ver, ctx, fault) ==
    IF ctx.err # Nil \/ fault # 0
    THEN [err |-> Classify(DoError(ctx, fault, 0), "delete error"), slot |-> slot,
          call |-> Call("delete", ctx.err = Nil, ctxTimeout(ctx), ver,
                        IF ctx.err # Nil THEN 0 ELSE fault)]
    ELSE LET r == EngineDelete(slot, ver)
         IN  [err  |-> IF r.status = 200 THEN Nil
                       ELSE Classify(ElasticError(r.status), "delete error"),
              slot |-> r.slot,
              call |-> Call("delete", TRUE, ctxTimeout(ctx), ver, r.status)]

\* The loop of Insert skipping an item whose ID is no string, not returning.
InsertRequests_Skip(items) ==
    [err |-> Nil, reqs |-> SelectSeq(items, LAMBDA i : i.ID.t = "string")]

\* Insert, lines 40-48: one create operation per item is added to the bulk
\* request; at the first item whose ID is no string Insert returns, and the
\* request is dropped unsent.
InsertRequests(items) ==
    IF \A k \in 1..Len(items) : IsStringID(items[k])
    THEN [err |-> Nil, reqs |-> items]
    ELSE [err |-> NonStringID, reqs |-> <<>>]

\* bulk.Do(ctx): a bulk request without operations fails in the client, as
\* does one under a context that is done; the engine fails the whole request
\* (fault) or applies the operations and answers entry by entry.
BulkDo(st, items, ctx, fault, rejected) ==
    IF Len(items) = 0
    THEN [err |-> GoErr("errors", 0, "", "elastic: No bulk actions to commit", 0),
          store |-> st, resp |-> <<>>,
          call |-> Call("bulk", FALSE, ctxTimeout(ctx), 0, 0)]
    ELSE IF ctx.err # Nil
    THEN [err |-> ctx.err, store |-> st, resp |-> <<>>,
          call |-> Call("bulk", FALSE, ctxTimeout(ctx), 0, 0)]
    ELSE IF fault # 0
    THEN [err |-> ElasticError(fault), store |-> st, resp |-> <<>>,
          call |-> Call("bulk", TRUE, ctxTimeout(ctx), 0, fault)]
    ELSE LET b == BulkApply(st, items, rejected, 1)
         IN  [err |-> Nil, store |-> b.store, resp |-> b.resp,
              call |-> Call("bulk", TRUE, ctxTimeout(ctx), 0, 200)]

\* Insert without the look at res.Errors.
InsertError_IgnoreFailed(err, resp) ==
    IF err # Nil THEN Classify(err, "insert error") ELSE Nil

\* Insert, lines 56-73: the error Insert returns for the outcome of bulk.Do.
\* The loop over res.Failed() breaks in its first round, where i is 0.
InsertError(err, resp) ==
    IF err # Nil THEN Classify(err, "insert error")
    ELSE LET failed == Failed(resp)
             i == 0
         IN  IF Len(failed) > 0
             THEN IF isConflict(failed[i + 1].error)
                  THEN ErrConflict
                  ELSE Opaque("insert error on item #", i + 1)
             ELSE Nil


\* json.Unmarshal of a stored source into a map[string]interface{}: the
\* engine holds JSON, in which a time is a string.
Unmarshal(src) ==
    [k \in DOMAIN src |->
        IF src[k].t = "time.Time" THEN GoString(src[k].v) ELSE src[k]]

\* Find with the error of getQuery ignored.
FindQuery_SendAnyway(q) == [err |-> Nil, qry |-> getQuery(q).qry]

\* Find, lines 173-177: the query, or the error Find returns for it.
FindQuery(q) ==
    LET r == getQuery(q)
    IN  IF r.err # Nil
        THEN [err |-> Opaque("find query translation error", 0), qry |-> NilQuery]
        ELSE r

\* Find, lines 187-194: the offset and the size of the search request.
SearchFrom(w) == IF w.set /\ w.Offset > 0 THEN w.Offset ELSE 0

\* The size left to the engine whatever the window.
SearchSize_Unset(w) == DefaultSize

SearchSize(w) == IF w.set /\ w.Limit >= 0 THEN w.Limit ELSE DefaultSize

\* An item list.
ItemList(total, items) == [Items |-> items, Total |-> total]

\* Find: the error and the list it returns, and the calls it made.
FindDo(st, q, ctx, fault) ==
    LET fq == FindQuery(q)
        err == DoError(ctx, fault, 200)
        call == Call("search", ctx.err = Nil, ctxTimeout(ctx), 0,
                     IF ctx.err # Nil THEN 0 ELSE IF fault # 0 THEN fault ELSE 200)
        res == EngineSearch(st, fq.qry, SearchFrom(q.Window), SearchSize(q.Window))
    IN  IF fq.err # Nil THEN [err |-> fq.err, resp |-> <<>>, calls |-> <<>>]
        ELSE IF err # Nil
        THEN [err |-> Classify(err, "find error"), resp |-> <<>>, calls |-> <<call>>]
        ELSE IF res.total = 0
        THEN [err |-> Nil, resp |-> <<ItemList(0, <<>>)>>, calls |-> <<call>>]
        ELSE [err |-> Nil, resp |-> <<ItemList(res.total,
                                  [k \in 1..Len(res.hits) |->
                                      buildItem(res.hits[k].Id,
                                                Unmarshal(res.hits[k].Source))])>>,
              calls |-> <<call>>]

\* Clear deleting every document of the index.
ClearDo_DeleteAll(st, q) ==
    [err |-> Nil, store |-> [x \in DOMAIN st |->
                  IF st[x].exists THEN Tombstone(st[x].ver + 1) ELSE st[x]],
     calls |-> <<Call("delete_by_query", TRUE, FALSE, 0, 200)>>,
     deleted |-> Cardinality({x \in DOMAIN st : st[x].exists})]

\* Clear: return 0, resource.ErrNotImplemented
ClearDo(st, q) == [err |-> ErrNotImplemented, store |-> st, calls |-> <<>>, deleted |-> 0]

\* The Find of the handler's earlier versions starts with a path of its own
\* for the request of a single document by its identifier: one Equal on the
\* identifier field with a string value, first page, one item per page.
IsGetPattern(q) ==
    /\ Len(q.Predicate) = 1
    /\ q.Predicate[1].op = "Equal"
    /\ q.Predicate[1].field = "id"
    /\ q.Predicate[1].value.t = "string"
    /\ q.Window = [set |-> TRUE, Offset |-> 0, Limit |-> 1]

\* Handler.get of those versions: the document is read with the Get API.  The
\* request takes no context; a not-found gives the empty list, another error
\* an opaque one, and the list of a found document is made with Total 0 and
\* gets the item appended.
get(st, id, fault) ==
    LET r == EngineGet(IF id \in DOMAIN st THEN st[id] ELSE Absent)
        status == IF fault # 0 THEN fault ELSE r.status
        err == DoError(Background, fault, r.status)
        call == Call("get", TRUE, FALSE, 0, status)
    IN  IF err # Nil /\ ~IsNotFound(err)
        THEN [err |-> Opaque("find item error", 0), resp |-> <<>>, calls |-> <<call>>]
        ELSE IF IsNotFound(err)
        THEN [err |-> Nil, resp |-> <<ItemList(0, <<>>)>>, calls |-> <<call>>]
        ELSE [err |-> Nil, resp |-> <<ItemList(0, <<buildItem(id, Unmarshal(r.src))>>)>>,
              calls |-> <<call>>]

\* A run-time panic of the handler: an index out of range.
Panic == GoErr("panic", 0, "", "index out of range", 0)

\* An entry of a slice of items that was never assigned.
NilItem == [ID |-> GoNil, ETag |-> <<>>, Updated |-> 0, Payload |-> <<>>]

\* MultiGet, lines 252-267: the slice has one entry per found document and
\* the item of the i-th entry of the response is written at index i.
MultiGetItems(docs) ==
    LET total == Cardinality({k \in 1..Len(docs) : docs[k].Found})
    IN  IF \E k \in 1..Len(docs) : docs[k].Found /\ k > total
        THEN [err |-> Panic, resp |-> <<>>]
        ELSE [err |-> Nil,
              resp |-> <<[k \in 1..total |->
                            IF docs[k].Found
                            THEN buildItem(docs[k].Id, Unmarshal(docs[k].Source))
                            ELSE NilItem]>>]

\* MultiGet looking at the type of the identifiers after its request.
MultiGetDo_CheckAfter(st, ids, ctx, fault) ==
    [err |-> Opaque("non string IDs are not supported with ElasticSearch", 0),
     resp |-> <<>>,
     calls |-> <<Call("mget", ctx.err = Nil, FALSE, 0, IF ctx.err # Nil THEN 0 ELSE 200)>>]

\* MultiGet: the error and the items it returns, and the calls it made.
MultiGetDo(st, ids, ctx, fault) ==
    LET err == DoError(ctx, fault, 200)
        call == Call("mget", ctx.err = Nil, FALSE, 0,
                     IF ctx.err # Nil THEN 0 ELSE IF fault # 0 THEN fault ELSE 200)
    IN  IF \E k \in 1..Len(ids) : ids[k].t # "string"
        THEN [err |-> Opaque("non string IDs are not supported with ElasticSearch", 0),
              resp |-> <<>>, calls |-> <<>>]
        ELSE IF err # Nil
        THEN [err |-> Classify(err, "multi get error"), resp |-> <<>>, calls |-> <<call>>]
        ELSE LET r == MultiGetItems(EngineMultiGet(st, [k \in 1..Len(ids) |-> ids[k].v]))
             IN  [err |-> r.err, resp |-> r.resp, calls |-> <<call>>]

\* ------------------------------------------------------------ the state

VARIABLES
    store,  \* the index: the slot of every document id
    op,     \* per caller: the Update or Delete it is in the middle of
    last,   \* the operation that is returning: arguments, error, engine calls
    h,      \* the handler: its field Refresh
    seen    \* the index as a search sees it: the documents at the last refresh

vars == <<store, op, last, h, seen>>

\* NewHandler: the handler as constructed.
NewHandler == [Refresh |-> "false"]

\* The locals of an Update or Delete between its round trips.  lost is no
\* local of the code: it notes that, since this operation fetched, the engine
\* applied the write of another operation that had fetched the same version
\* of the same document, and the document was not created anew since.
IdleOp ==
    [kind |-> "idle", ctx |-> Background, ver |-> 0, calls |-> <<>>, args |-> <<>>,
     lost |-> FALSE]

\* The locals of an operation that sent its fetch a second time.
InFlight_FetchTwice(kind, args, ctx, ver, calls) ==
    [kind |-> kind, ctx |-> ctx, ver |-> ver, calls |-> calls \o calls, args |-> args,
     lost |-> FALSE]

InFlight(kind, args, ctx, ver, calls) ==
    [kind |-> kind, ctx |-> ctx, ver |-> ver, calls |-> calls, args |-> args,
     lost |-> FALSE]

\* The document id an operation in flight works on.
OpId(o) == o.args[Len(o.args)].ID.v

\* op after the engine applied the write of caller q on document id.
Overtaken(q, id) ==
    [p \in Procs |->
        IF p = q THEN IdleOp
        ELSE IF op[p].kind # "idle" /\ OpId(op[p]) = id /\ op[p].ver = op[q].ver
             THEN [op[p] EXCEPT !.lost = TRUE]
             ELSE op[p]]

\* op after the documents of ids were created.
Recreated(ids) ==
    [p \in Procs |->
        IF op[p].kind # "idle" /\ OpId(op[p]) \in ids
        THEN [op[p] EXCEPT !.lost = FALSE]
        ELSE op[p]]

NoReturn ==
    [err |-> Nil, ctx |-> Background, op |-> "none", resp |-> <<>>, calls |-> <<>>,
     args |-> <<>>]

\* The record of an operation that returns.
Returned(name, args, ctx, err, calls, resp) ==
    [err |-> err, ctx |-> ctx, op |-> name, resp |-> resp, calls |-> calls, args |-> args]

\* What the engine does to one request: the status with which it fails the
\* whole request (0: it does not) and, of a bulk request it does not fail,
\* the operations it refuses.  A request that the client does not send (the
\* context is done) meets no engine.
EngineInputs(ctx, n) ==
    IF ctx.err # Nil THEN {[rejected |-> [k \in 1..n |-> FALSE], fault |-> 0]}
    ELSE {[rejected |-> [k \in 1..n |-> FALSE], fault |-> f] : f \in RequestFaults}
         \cup {[rejected |-> r, fault |-> 0] : r \in [1..n -> BOOLEAN]}

Init ==
    /\ store = [s \in StrIds |-> Absent]
    /\ op = [p \in Procs |-> IdleOp]
    /\ last = NoReturn
    /\ h = NewHandler
    /\ seen = [s \in StrIds |-> Absent]

\* Handler.Insert: one bulk round trip.
Insert(p, batches, ctxs) ==
    /\ last = NoReturn
    /\ op[p].kind = "idle"
    /\ \E items \in batches, ctx \in ctxs :
        LET b == InsertRequests(items)
        IN  IF b.err # Nil
            THEN /\ last' = Returned("Insert", items, ctx, b.err, <<>>, <<>>)
                 /\ UNCHANGED <<store, op, seen>>
            ELSE \E e \in EngineInputs(ctx, Len(b.reqs)) :
                 LET do == BulkDo(store, b.reqs, ctx, e.fault, e.rejected)
                 IN  /\ \A s \in StrIds : do.store[s].ver <= MaxVer
                     /\ store' = do.store
                     /\ seen' = Refresh(h.Refresh, do.store, seen, do.call.status = 200)
                     /\ last' = Returned("Insert", items, ctx,
                                         InsertError(do.err, do.resp), <<do.call>>, do.resp)
                     /\ op' = Recreated({s \in StrIds : do.store[s] # store[s]})
    /\ UNCHANGED h

\* Handler.Update up to the return of validateEtag: the first round trip.
UpdateFetch(p, updates, ctxs) ==
    /\ last = NoReturn
    /\ op[p].kind = "idle"
    /\ \E u \in updates, ctx \in ctxs :
         LET item == u[1]
             original == u[2]
         IN  IF ~IsStringID(original)
             THEN /\ last' = Returned("Update", u, ctx, NonStringID, <<>>, <<>>)
                  /\ UNCHANGED op
             ELSE \E e \in EngineInputs(ctx, 0) :
                  LET v == validateEtag(store[original.ID.v], original.ETag, ctx, e.fault)
                  IN  IF v.err # Nil
                      THEN /\ last' = Returned("Update", u, ctx, v.err, <<v.call>>, <<>>)
                           /\ UNCHANGED op
                      ELSE /\ op' = [op EXCEPT ![p] =
                                       InFlight("Update", u, ctx, v.ver, <<v.call>>)]
                           /\ UNCHANGED last
    /\ UNCHANGED <<store, h, seen>>

\* Handler.Update from the context check on: the second round trip.
UpdateWrite(p) ==
    /\ last = NoReturn
    /\ op[p].kind = "Update"
    /\ LET o  == op[p]
           id == OpId(o)
       IN  IF CtxCheck(o.ctx) # Nil
           THEN /\ last' = Returned("Update", o.args, o.ctx, CtxCheck(o.ctx), o.calls, <<>>)
                /\ op' = [op EXCEPT ![p] = IdleOp]
                /\ UNCHANGED <<store, seen>>
           ELSE \E e \in EngineInputs(o.ctx, 0) :
                  LET w == UpdateDo(store[id], o.args[1], WriteVersion(o.ver), o.ctx, e.fault)
                  IN  /\ w.slot.ver <= MaxVer
                      /\ store' = [store EXCEPT ![id] = w.slot]
                      /\ seen' = Refresh(h.Refresh, [store EXCEPT ![id] = w.slot], seen,
                                       w.call.status = 200)
                      /\ last' = Returned("Update", o.args, o.ctx, w.err,
                                          Append(o.calls, w.call), <<>>)
                      /\ op' = IF w.call.status = 200
                               THEN Overtaken(p, id)
                               ELSE [op EXCEPT ![p] = IdleOp]
    /\ UNCHANGED h

\* Handler.Delete up to the return of validateEtag.
DeleteFetch(p, items, ctxs) ==
    /\ last = NoReturn
    /\ op[p].kind = "idle"
    /\ \E item \in items, ctx \in ctxs :
         IF ~IsStringID(item)
         THEN /\ last' = Returned("Delete", <<item>>, ctx, NonStringID, <<>>, <<>>)
              /\ UNCHANGED op
         ELSE \E e \in EngineInputs(ctx, 0) :
              LET v == validateEtag(store[item.ID.v], item.ETag, ctx, e.fault)
              IN  IF v.err # Nil
                  THEN /\ last' = Returned("Delete", <<item>>, ctx, v.err, <<v.call>>, <<>>)
                       /\ UNCHANGED op
                  ELSE /\ op' = [op EXCEPT ![p] =
                                   InFlight("Delete", <<item>>, ctx, v.ver, <<v.call>>)]
                       /\ UNCHANGED last
    /\ UNCHANGED <<store, h, seen>>

\* Handler.Delete from the context check on.
DeleteWrite(p) ==
    /\ last = NoReturn
    /\ op[p].kind = "Delete"
    /\ LET o  == op[p]
           id == OpId(o)
       IN  IF CtxCheck(o.ctx) # Nil
           THEN /\ last' = Returned("Delete", o.args, o.ctx, CtxCheck(o.ctx), o.calls, <<>>)
                /\ op' = [op EXCEPT ![p] = IdleOp]
                /\ UNCHANGED <<store, seen>>
           ELSE \E e \in EngineInputs(o.ctx, 0) :
                  LET w == DeleteDo(store[id], WriteVersion(o.ver), o.ctx, e.fault)
                  IN  /\ w.slot.ver <= MaxVer
                      /\ store' = [store EXCEPT ![id] = w.slot]
                      /\ seen' = Refresh(h.Refresh, [store EXCEPT ![id] = w.slot], seen,
                                       w.call.status = 200)
                      /\ last' = Returned("Delete", o.args, o.ctx, w.err,
                                          Append(o.calls, w.call), <<>>)
                      /\ op' = IF w.call.status = 200
                               THEN Overtaken(p, id)
                               ELSE [op EXCEPT ![p] = IdleOp]
    /\ UNCHANGED h

\* The caller takes the error the operation returns; the next step of any
\* caller or of the engine comes after.
Return ==
    /\ last # NoReturn
    /\ last' = NoReturn
    /\ UNCHANGED <<store, op, h, seen>>

\* The caller's context ends while the operation is between its round trips:
\* the deadline passes, or the caller cancels.
CtxDone(p) ==
    /\ last = NoReturn
    /\ op[p].kind # "idle"
    /\ op[p].ctx = WithDeadline
    /\ \E c \in {Expired, Cancelled} : op' = [op EXCEPT ![p].ctx = c]
    /\ UNCHANGED <<store, last, h, seen>>

\* The engine forgets a deleted document (index.gc_deletes): the next
\* document stored under the id starts again at version 1.
GcDeletes(s) ==
    /\ last = NoReturn
    /\ ~store[s].exists
    /\ store[s].ver > 0
    /\ store' = [store EXCEPT ![s] = Absent]
    /\ UNCHANGED <<op, last, h, seen>>

\* The engine refreshes the index, as it does every refresh interval: the
\* search sees the documents as they are now.
EngineRefresh ==
    /\ last = NoReturn
    /\ seen # View(store)
    /\ seen' = View(store)
    /\ UNCHANGED <<store, op, last, h>>

\* The owner of the handler sets its field: h.Refresh = "true"
SetRefresh(flags) ==
    /\ last = NoReturn
    /\ \A p \in Procs : op[p].kind = "idle"
    /\ \E flag \in flags :
         /\ flag # h.Refresh
         /\ h' = [h EXCEPT !.Refresh = flag]
    /\ UNCHANGED <<store, op, last, seen>>

\* What fails a request that carries no list of operations.
RequestInputs(ctx) == IF ctx.err # Nil THEN {0} ELSE {0} \cup RequestFaults

\* Handler.Find: one search round trip, on what the search sees.
Find(p, queries, ctxs) ==
    /\ last = NoReturn
    /\ op[p].kind = "idle"
    /\ \E q \in queries, ctx \in ctxs :
         \E fault \in RequestInputs(ctx) :
           LET r == FindDo(seen, q, ctx, fault)
           IN  last' = Returned("Find", <<q>>, ctx, r.err, r.calls, r.resp)
    /\ UNCHANGED <<store, op, h, seen>>

\* Handler.Clear
Clear(p, queries, ctxs) ==
    /\ last = NoReturn
    /\ op[p].kind = "idle"
    /\ \E q \in queries, ctx \in ctxs :
         LET r == ClearDo(store, q)
         IN  /\ store' = r.store
             /\ last' = Returned("Clear", <<q>>, ctx, r.err, r.calls, <<r.deleted>>)
    /\ UNCHANGED <<op, h, seen>>

\* Handler.Find of the earlier versions on a request that takes the path of
\* Handler.get: one get round trip.
FindGet(p, queries, ctxs) ==
    /\ last = NoReturn
    /\ op[p].kind = "idle"
    /\ \E q \in queries, ctx \in ctxs :
         /\ IsGetPattern(q)
         /\ \E fault \in {0} \cup RequestFaults :
              LET r == get(store, q.Predicate[1].value.v, fault)
              IN  last' = Returned("get", <<q>>, ctx, r.err, r.calls, r.resp)
    /\ UNCHANGED <<store, op, h, seen>>

\* Handler.MultiGet: one multi-get round trip.
MultiGet(p, idLists, ctxs) ==
    /\ last = NoReturn
    /\ op[p].kind = "idle"
    /\ \E ids \in idLists, ctx \in ctxs :
         \E fault \in RequestInputs(ctx) :
           LET r == MultiGetDo(store, ids, ctx, fault)
           IN  last' = Returned("MultiGet", ids, ctx, r.err, r.calls, r.resp)
    /\ UNCHANGED <<store, op, h, seen>>

\* The functions of util.go and query.go applied to an input: the record of
\* the call holds the input, the error and the results.
TranslateError(errs) ==
    /\ last = NoReturn
    /\ \E e \in errs :
         LET r == translateError(e)
         IN  last' = Returned("translateError", <<e>>, Background, r.err, <<>>, <<r.handled>>)
    /\ UNCHANGED <<store, op, h, seen>>

\* buildItem(id, buildDoc(item))
Codec(items, ids) ==
    /\ last = NoReturn
    /\ \E i \in items, id \in ids :
         last' = Returned("buildItem", <<i, id>>, Background, Nil, <<>>,
                          <<buildDoc(i), buildItem(id, buildDoc(i))>>)
    /\ UNCHANGED <<store, op, h, seen>>

GetQuery(queries) ==
    /\ last = NoReturn
    /\ \E q \in queries :
         LET r == getQuery(q)
         IN  last' = Returned("getQuery", <<q>>, Background, r.err, <<>>, <<r.qry>>)
    /\ UNCHANGED <<store, op, h, seen>>

GetSort(queries) ==
    /\ last = NoReturn
    /\ \E q \in queries :
         last' = Returned("getSort", <<q>>, Background, Nil, <<>>, <<getSort(q)>>)
    /\ UNCHANGED <<store, op, h, seen>>

\* ---------------------------------------------------------- specifications

\* One caller, the whole range of arguments, contexts and engine answers.
Originals == {MkItem(id, tag, 1) : id \in IDs, tag \in Tags}

Updates == {<<MkItem(o.ID, tag, n), o>> : o \in Originals, tag \in {T1, TB}, n \in {1, 2}}

Caller == "c1"

Next ==
    \/ Insert(Caller, Batches, Contexts)
    \/ UpdateFetch(Caller, Updates, Contexts)
    \/ UpdateWrite(Caller)
    \/ DeleteFetch(Caller, Originals, Contexts)
    \/ DeleteWrite(Caller)
    \/ CtxDone(Caller)
    \/ \E s \in StrIds : GcDeletes(s)
    \/ Return

Spec == Init /\ [][Next]_vars

\* Two callers at once on one document, every request answered by the engine.
RaceIds == {StringID("a")}

RaceBatches == {<<MkItem(id, tag, 1)>> : id \in RaceIds, tag \in {T1, TB}}

RaceOriginals == {MkItem(id, tag, 1) : id \in RaceIds, tag \in Tags}

RaceUpdates == {<<MkItem(o.ID, tag, 1), o>> : o \in RaceOriginals, tag \in {T1, TB}}

NextRace ==
    \/ \E p \in Procs : Insert(p, RaceBatches, {Background})
    \/ \E p \in Procs : UpdateFetch(p, RaceUpdates, {Background})
    \/ \E p \in Procs : UpdateWrite(p)
    \/ \E p \in Procs : DeleteFetch(p, RaceOriginals, {Background})
    \/ \E p \in Procs : DeleteWrite(p)
    \/ \E s \in StrIds : GcDeletes(s)
    \/ Return

SpecRace == Init /\ [][NextRace]_vars

\* The callers run: an operation that has fetched goes on to its write (the
\* call blocks the caller and nothing else), and a return is taken.
SpecRaceFair ==
    /\ SpecRace
    /\ \A p \in Procs : SF_vars(UpdateWrite(p)) /\ SF_vars(DeleteWrite(p))
    /\ WF_vars(Return)


\* The functions of util.go and query.go on their own.
\* Errors: what the engine client returns, and errors that are not its own.
Errors ==
    {ElasticError(st) : st \in {400, 404, 408, 409, 500}}
      \cup {GoErr("elastic.Error", 409, "version_conflict_engine_exception", "", 0)}
      \cup {ErrorDetails(ty) :
              ty \in {"version_conflict_engine_exception", "mapper_parsing_exception"}}
      \cup {Opaque("test", 0), DeadlineExceeded, Canceled, ErrConflict, ErrNotFound}

\* Items: with and without version tag and last-modified time; payloads with
\* the identifier, without it, with another one, and with a reserved key.
CodecPayloads(id) ==
    {[id |-> id, foo |-> GoString("x")],
     [foo |-> GoString("x")],
     [id |-> StringID("other"), foo |-> GoNumber(1)],
     [id |-> id],
     [id |-> id, _etag |-> GoNumber(1)],
     [id |-> id, _updated |-> GoString("x")]}

CodecItems ==
    {[ID |-> id, ETag |-> tag, Updated |-> u, Payload |-> pl] :
        id \in {StringID(x) : x \in StrIds}, tag \in {<<>>, T1, TB}, u \in {0, Now},
        pl \in UNION {CodecPayloads(StringID(x)) : x \in StrIds}}

\* Predicates: every leaf on the identifier field and on another field,
\* composites of up to MaxNodes children nested twice, and lists of up to
\* MaxNodes expressions.
PredFields == {"id", "foo"}

ValueLists == SeqsUpTo({GoString("x"), GoString("y")}, MaxNodes)

Leaves ==
    {Leaf(o, f, GoNumber(1)) :
        o \in {"Equal", "NotEqual", "GreaterThan", "GreaterOrEqual", "LowerThan",
               "LowerOrEqual", "Regex"},
        f \in PredFields}
      \cup {SetLeaf(o, f, vs) : o \in {"In", "NotIn"}, f \in PredFields, vs \in ValueLists}

Kids ==
    {Leaf("Equal", "foo", GoString("x")), Leaf("GreaterThan", "bar", GoNumber(1)),
     Leaf("Regex", "foo", GoString("x"))}

Nested == {Composite(o, es) : o \in {"And", "Or"}, es \in SeqsUpTo(Kids, MaxNodes)}

DeepKids ==
    {Leaf("Equal", "id", GoString("a")),
     Composite("And", <<Leaf("Equal", "foo", GoString("x")), Leaf("LowerThan", "bar", GoNumber(1))>>),
     Composite("Or", <<Leaf("Regex", "foo", GoString("x"))>>)}

Deep == {Composite(o, es) : o \in {"And", "Or"}, es \in SeqsUpTo(DeepKids, MaxNodes)}

TopKids ==
    Kids \cup {Composite("Or", <<Leaf("Equal", "foo", GoString("x")), Leaf("Equal", "foo", GoString("y"))>>)}

Predicates ==
    SeqsUpTo(TopKids, MaxNodes) \cup {<<e>> : e \in Leaves \cup Nested \cup Deep}

\* A query.Query: the predicate, the window and the sort (here none).
MkQuery(pred, window) == [Predicate |-> pred, Sort |-> <<>>, Window |-> window]


NoWindow == [set |-> FALSE, Offset |-> 0, Limit |-> 0]

Window(offset, limit) == [set |-> TRUE, Offset |-> offset, Limit |-> limit]

PureQueries == {MkQuery(pr, NoWindow) : pr \in Predicates}

\* Sorts: up to MaxNodes entries on the identifier field or another one,
\* each reversed or not.
SortFields == [Name : PredFields, Reversed : BOOLEAN]

Sorts == SeqsUpTo(SortFields, MaxNodes)

SortQueries == {[MkQuery(<<>>, NoWindow) EXCEPT !.Sort = srt] : srt \in Sorts}

NextPure ==
    \/ TranslateError(Errors)
    \/ Codec(CodecItems, StrIds)
    \/ GetQuery(PureQueries)
    \/ GetSort(SortQueries)
    \/ Return

SpecPure == Init /\ [][NextPure]_vars


\* Find and MultiGet on an index of up to MaxDocs documents, which Inserts of
\* one item fill in the order of the identifiers: the documents in turn have
\* the first and the second payload.
FindIds == {IdNames[k] : k \in 1..MaxDocs}

InitFind ==
    /\ store = [s \in FindIds |-> Absent]
    /\ op = [p \in Procs |-> IdleOp]
    /\ last = NoReturn
    /\ h = NewHandler
    /\ seen = [s \in FindIds |-> Absent]

NextBatch ==
    {<<MkItem(StringID(IdNames[k]), T1, IF k % 2 = 1 THEN 1 ELSE 2)>> :
        k \in {j \in 1..MaxDocs :
                 /\ ~store[IdNames[j]].exists
                 /\ \A i \in 1..(j - 1) : store[IdNames[i]].exists}}

FindPredicates ==
    {<<>>,
     <<Leaf("Equal", "foo", GoString("x"))>>,
     <<Leaf("Equal", "id", GoString("a"))>>,
     <<Leaf("Equal", "foo", GoString("x")), Leaf("NotEqual", "id", GoString("a"))>>,
     <<Leaf("Regex", "foo", GoString("x"))>>,
     <<Composite("And", <<Leaf("Equal", "foo", GoString("x")),
                          Composite("Or", <<Leaf("Regex", "foo", GoString("x"))>>)>>)>>}

Windows ==
    {NoWindow} \cup {Window(o, l) : o \in {0, 1, 2}, l \in {-1, 0, 1, MaxDocs}}

FindQueries == {MkQuery(pr, w) : pr \in FindPredicates, w \in Windows}

\* The values the tests give the handler's field Refresh.
RefreshFlags == {"true", "false"}

IdLists == SeqsUpTo({StringID("a"), StringID("b"), StringID(IdNames[MaxDocs]), IntID}, MaxBatch)

NextFind ==
    \/ Insert(Caller, NextBatch, {Background})
    \/ Find(Caller, FindQueries, Contexts)
    \/ FindGet(Caller, FindQueries, Contexts)
    \/ Clear(Caller, FindQueries, Contexts)
    \/ SetRefresh(RefreshFlags)
    \/ EngineRefresh
    \/ MultiGet(Caller, IdLists, Contexts)
    \/ Return

SpecFind == InitFind /\ [][NextFind]_vars

\* One caller on one document whose version tag is any of the tags or the
\* empty one, every request under a live context.
TagsOrNone == Tags \cup {<<>>}

TagBatches == {<<MkItem(id, tag, 1)>> : id \in RaceIds, tag \in TagsOrNone}

TagOriginals == {MkItem(id, tag, 1) : id \in RaceIds, tag \in TagsOrNone}

TagUpdates == {<<MkItem(o.ID, tag, 2), o>> : o \in TagOriginals, tag \in {T1, TB, <<>>}}

NextTag ==
    \/ Insert(Caller, TagBatches, {Background})
    \/ UpdateFetch(Caller, TagUpdates, {Background})
    \/ UpdateWrite(Caller)
    \/ DeleteFetch(Caller, TagOriginals, {Background})
    \/ DeleteWrite(Caller)
    \/ \E s \in StrIds : GcDeletes(s)
    \/ Return

SpecTag == Init /\ [][NextTag]_vars

\* One caller that inserts, deletes, searches and reads one document, with the
\* handler's Refresh "false" or "true" and the engine refreshing when it will.
ViewQueries ==
    {MkQuery(<<>>, NoWindow),
     MkQuery(<<Leaf("Equal", "id", GoString("a"))>>, NoWindow)}

ViewIdLists == {<<StringID("a")>>}

NextView ==
    \/ Insert(Caller, RaceBatches, {Background})
    \/ DeleteFetch(Caller, RaceOriginals, {Background})
    \/ DeleteWrite(Caller)
    \/ SetRefresh(RefreshFlags)
    \/ EngineRefresh
    \/ Find(Caller, ViewQueries, {Background})
    \/ MultiGet(Caller, ViewIdLists, {Background})
    \/ Return

SpecView == Init /\ [][NextView]_vars

\* One caller and every operation of the handler: the operations of Next, and
\* Find, MultiGet and Clear on the same documents.  A second caller deletes
\* the first document meanwhile.
Other == "c2"

AllIdLists == SeqsUpTo(IDs, MaxBatch)

NextAll ==
    \/ Next
    \/ Find(Caller, ViewQueries, Contexts)
    \/ MultiGet(Caller, AllIdLists, Contexts)
    \/ Clear(Caller, ViewQueries, Contexts)
    \/ DeleteFetch(Other, RaceOriginals, {Background})
    \/ DeleteWrite(Other)

SpecAll == Init /\ [][NextAll]_vars

\* ------------------------------------------------------------ the claims

\* The identifier and the version tag an Update (original) or a Delete (item)
\* was called with; r is an operation in flight or one that returns.
ArgId(r) == r.args[Len(r.args)].ID.v

ArgTag(r) == r.args[Len(r.args)].ETag

\* The version tag of a stored document; none stored reads as the empty tag.
StoredTag(slot) == IF etagField \in DOMAIN slot.src THEN slot.src[etagField].v ELSE <<>>

\* Steps: an Update or Delete returns right after its fetch; Insert returns.
FetchReturn ==
    last = NoReturn /\ last'.op \in {"Update", "Delete"} /\ Len(last'.calls) = 1

InsertReturn == last = NoReturn /\ last'.op = "Insert"

\* The engine answered the write of the Update or Delete that returns as r.
WriteAnswered(r) ==
    Len(r.calls) = 2 /\ r.calls[2].sent /\ r.calls[2].status \notin RequestFaults

\* C1: no lost update.  Of the Updates and Deletes of one document that
\* fetched the same engine version (and so the same version tag) of it, the
\* engine applies the write of at most one: once it has applied one, the
\* write of every other is answered Conflict, or NotFound if the document was
\* deleted, and changes nothing - until the document is created anew.
C1_NoLostUpdate ==
    [][\A p \in Procs :
         (op[p].kind # "idle" /\ op[p].lost /\ op'[p].kind = "idle" /\ WriteAnswered(last'))
         => (store' = store /\ last'.err \in {ErrConflict, ErrNotFound})]_vars

\* A write that the engine refused with a version conflict: it lost a race.
C1_Witness ==
    last.op \in {"Update", "Delete"} /\ Len(last.calls) = 2 /\ last.calls[2].status = 409

\* C2: the engine applies the write of an Update or Delete only to a document
\* whose stored version tag, when the write is applied, is the tag the caller
\* supplied.
C2_WriteOnlyOnMatchingTag ==
    [][\A p \in Procs :
         (op[p].kind # "idle" /\ op'[p].kind = "idle"
            /\ Len(last'.calls) = 2 /\ last'.calls[2].status = 200)
         => (store[OpId(op[p])].exists
               /\ StoredTag(store[OpId(op[p])]) = ArgTag(op[p]))]_vars

\* C3: an Update or Delete whose version tag differs from the stored
\* document's returns Conflict after the fetch: it never goes on to its write,
\* and the store is unchanged.
C3_StaleTagConflict ==
    [][/\ \A p \in Procs :
            (op[p].kind = "idle" /\ op'[p].kind # "idle")
            => StoredTag(store[OpId(op'[p])]) = ArgTag(op'[p])
       /\ (FetchReturn /\ last'.calls[1].status = 200
             /\ StoredTag(store[ArgId(last')]) # ArgTag(last'))
          => (last'.err = ErrConflict /\ store' = store)]_vars

\* C4: an Update or Delete of an identifier without a stored document returns
\* NotFound after the fetch (when the engine answers it): it never goes on to
\* its write, and the store is unchanged, so no document is created.
C4_MissingNotFound ==
    [][/\ \A p \in Procs :
            (op[p].kind = "idle" /\ op'[p].kind # "idle") => store[OpId(op'[p])].exists
       /\ (FetchReturn /\ last'.calls[1].sent /\ last'.calls[1].status \notin RequestFaults
             /\ ~store[ArgId(last')].exists)
          => (last'.err = ErrNotFound /\ store' = store)]_vars

C4_Witness ==
    /\ last.op \in {"Update", "Delete"}
    /\ last.err = ErrNotFound
    /\ Len(last.calls) = 1
    /\ ~store[ArgId(last)].exists

\* In the step in which Insert returns: the k-th item of the batch has a
\* string identifier under which a document is stored before the step.
Existing(k) == IsStringID(last'.args[k]) /\ store[last'.args[k].ID.v].exists

\* C5 as claimed: an Insert of an item whose identifier already has a stored
\* document returns Conflict and leaves that document as it is (here even
\* with the context alive and with an engine that, when it is asked, answers
\* and refuses the item for no other reason than that the document exists).
C5_ExistingIsConflict ==
    [][(InsertReturn /\ last'.ctx.err = Nil
          /\ (last'.calls = <<>> \/ last'.calls[1].status = 200)
          /\ \A j \in 1..Len(last'.resp) : Existing(j) => last'.resp[j].status = 409)
       => \A k \in 1..Len(last'.args) :
            Existing(k)
            => (last'.err = ErrConflict
                  /\ store'[last'.args[k].ID.v] = store[last'.args[k].ID.v])]_vars

\* C5 as amended: such an Insert leaves the stored document as it is and
\* never returns success; it returns Conflict when the first failed entry of
\* the bulk response is the refusal to create a document that exists.
C5_ExistingNeverOverwritten ==
    [][InsertReturn
       => \A k \in 1..Len(last'.args) :
            Existing(k)
            => /\ store'[last'.args[k].ID.v] = store[last'.args[k].ID.v]
               /\ last'.err # Nil
               /\ (last'.resp # <<>> /\ Failed(last'.resp)[1].status = 409)
                  => last'.err = ErrConflict]_vars

C5_Witness ==
    /\ last.op = "Insert"
    /\ last.err = ErrConflict
    /\ Len(last.resp) = 1
    /\ last.resp[1].status = 409
    /\ store[last.args[1].ID.v].exists

\* C6: after a successful Update(newItem, original) the stored document is
\* exactly toDocument(newItem).
C6_UpdateReplaces ==
    (last.op = "Update" /\ last.err = Nil)
    => store[ArgId(last)].src = buildDoc(last.args[1])

\* C7: an Update or Delete whose context's deadline has passed after the
\* fetch succeeded and matched returns DeadlineExceeded without a write: the
\* fetch stays its only engine call and the store is unchanged.
C7_ExpiredAbortsWrite ==
    [][\A p \in Procs :
         (op[p].kind # "idle" /\ op[p].ctx.err = DeadlineExceeded /\ op'[p].kind = "idle")
         => (last'.err = DeadlineExceeded /\ Len(last'.calls) = 1 /\ store' = store)]_vars

C7_Witness ==
    /\ last.op \in {"Update", "Delete"}
    /\ last.ctx = Expired
    /\ last.err = DeadlineExceeded
    /\ Len(last.calls) = 1
    /\ last.calls[1].status = 200

\* C8: an Insert of a batch with an item whose identifier is no string fails
\* before anything is sent: no engine call, and no item of the batch stored.
C8_NonStringRejected ==
    [][(InsertReturn /\ \E k \in 1..Len(last'.args) : ~IsStringID(last'.args[k]))
       => (last'.err # Nil /\ last'.calls = <<>> /\ store' = store)]_vars

\* The offending item comes second, after an item that could have been stored.
C8_Witness ==
    /\ last.op = "Insert"
    /\ Len(last.args) >= 2
    /\ IsStringID(last.args[1])
    /\ ~IsStringID(last.args[2])
    /\ last.err # Nil
    /\ last.calls = <<>>
    /\ ~store[last.args[1].ID.v].exists

\* C9: when the bulk response has failed entries, Insert reports the first:
\* Conflict if it says that the document exists, else an opaque error that
\* names the 1-based index of that item in the batch.
C9_FirstFailureReported ==
    (last.op = "Insert" /\ Failed(last.resp) # <<>>)
    => LET f == Failed(last.resp)[1]
       IN  IF f.status = 409
           THEN last.err = ErrConflict
           ELSE last.err = Opaque("insert error on item #", f.item)

\* In the state in which Insert returns: the call stored the k-th item.
StoredByCall(k) == k <= Len(last.resp) /\ last.resp[k].status = 201

IsStored(k) ==
    /\ store[last.args[k].ID.v].exists
    /\ store[last.args[k].ID.v].src = buildDoc(last.args[k])

\* C10 as claimed: Insert is all or nothing.  Without an error every item of
\* the batch is stored; with an error the call stored none.
C10_AllOrNothing ==
    last.op = "Insert"
    => /\ last.err = Nil
          => \A k \in 1..Len(last.args) : StoredByCall(k) /\ IsStored(k)
       /\ last.err # Nil => \A k \in 1..Len(last.args) : ~StoredByCall(k)

\* C10 as amended: without an error every item of the batch is stored; with
\* an error the call did not store at least one item of a batch that has any,
\* but the items whose entry of the bulk response succeeded are stored.
C10_AllOrSome ==
    last.op = "Insert"
    => /\ last.err = Nil
          => \A k \in 1..Len(last.args) : StoredByCall(k) /\ IsStored(k)
       /\ last.err # Nil
          => /\ Len(last.args) > 0 => \E k \in 1..Len(last.args) : ~StoredByCall(k)
             /\ \A k \in 1..Len(last.args) : StoredByCall(k) => IsStored(k)

\* Insert returns an error and has stored an item of the batch.
C10_Witness ==
    /\ last.op = "Insert"
    /\ last.err # Nil
    /\ \E k \in 1..Len(last.args) : StoredByCall(k) /\ IsStored(k)

\* What a predicate of equalities and inequalities says of a document.
Plain(pred) == \A k \in 1..Len(pred) : pred[k].op \in {"Equal", "NotEqual"}

PredMatches(pred, id, src) ==
    \A k \in 1..Len(pred) :
       LET e == pred[k]
           is == IF e.field = "id" THEN id = e.value.v
                 ELSE e.field \in DOMAIN src /\ src[e.field] = e.value
       IN  IF e.op = "Equal" THEN is ELSE ~is

\* The identifiers of the documents that match among those a search sees, in
\* the engine's order.
Matching(pred) ==
    SelectSeq(IdNames,
              LAMBDA x : x \in DOMAIN seen /\ seen[x].exists
                           /\ PredMatches(pred, x, seen[x].src))

\* C11: a Find with a window of limit >= 0 returns at most limit items, the
\* matches from the offset on, and as total the number of stored documents
\* that match the predicate, whatever the offset and the limit.
C11_Window ==
    (last.op = "Find" /\ last.err = Nil /\ Plain(last.args[1].Predicate)
       /\ last.args[1].Window.set /\ last.args[1].Window.Limit >= 0)
    => LET w == last.args[1].Window
           m == Matching(last.args[1].Predicate)
           list == last.resp[1]
           rest == IF Len(m) > w.Offset THEN Len(m) - w.Offset ELSE 0
       IN  /\ list.Total = Len(m)
           /\ Len(list.Items) <= w.Limit
           /\ Len(list.Items) = Min(w.Limit, rest)
           /\ \A k \in 1..Len(list.Items) : list.Items[k].ID = StringID(m[w.Offset + k])

\* limit 1 at offset 0 on two matches: one item, total 2.
C11_Witness ==
    /\ last.op = "Find"
    /\ last.err = Nil
    /\ last.args[1].Window = Window(0, 1)
    /\ Len(last.args[1].Predicate) = 1
    /\ last.resp[1].Total = 2
    /\ Len(last.resp[1].Items) = 1

\* C12: a Find with limit -1, or without a window, returns every stored
\* document that matches the predicate: as many items as total says (here at
\* offset 0).
C12_NoLimit ==
    (last.op = "Find" /\ last.err = Nil /\ Plain(last.args[1].Predicate)
       /\ (~last.args[1].Window.set
             \/ (last.args[1].Window.Limit = -1 /\ last.args[1].Window.Offset = 0)))
    => /\ last.resp[1].Total = Len(Matching(last.args[1].Predicate))
       /\ Len(last.resp[1].Items) = last.resp[1].Total

\* An expression is unsupported if it has no case in translatePredicate, or
\* if an expression below it has none.
RECURSIVE Unsupported(_)
Unsupported(e) ==
    \/ e.op \notin {"And", "Or", "In", "NotIn", "Equal", "NotEqual", "GreaterThan",
                    "GreaterOrEqual", "LowerThan", "LowerOrEqual"}
    \/ \E k \in 1..Len(e.exps) : Unsupported(e.exps[k])

HasUnsupported(pred) == \E k \in 1..Len(pred) : Unsupported(pred[k])

\* C13: a Find whose predicate holds an unsupported expression at any depth
\* fails before any engine call: no search request is sent.
C13_NoCallOnUnsupported ==
    (last.op = "Find" /\ HasUnsupported(last.args[1].Predicate))
    => (last.err # Nil /\ last.calls = <<>> /\ last.resp = <<>>)

\* The unsupported expression lies two composites deep, the context is alive.
C13_Witness ==
    /\ last.op = "Find"
    /\ last.ctx = Background
    /\ Len(last.args[1].Predicate) = 1
    /\ last.args[1].Predicate[1].op = "And"
    /\ HasUnsupported(last.args[1].Predicate)
    /\ last.err # Nil
    /\ last.calls = <<>>

\* C14: a Find whose predicate holds an unsupported expression returns the
\* NotImplemented error itself, not an opaque error made of it.
C14_NotImplementedKept ==
    (last.op = "Find" /\ HasUnsupported(last.args[1].Predicate))
    => last.err = ErrNotImplemented

\* C15: a MultiGet of string identifiers that the engine answers returns, with
\* no error, the items of the identifiers that are stored, in their order:
\* one per found identifier and nothing for the others, wherever they are in
\* the batch.
C15_MultiGetFound ==
    (last.op = "MultiGet" /\ (\A k \in 1..Len(last.args) : last.args[k].t = "string")
       /\ last.calls # <<>> /\ last.calls[1].status = 200)
    => /\ last.err = Nil
       /\ LET found == SelectSeq(last.args, LAMBDA i : store[i.v].exists)
              items == last.resp[1]
          IN  /\ Len(items) = Len(found)
              /\ \A k \in 1..Len(items) : items[k] # NilItem /\ items[k].ID = found[k]

\* C16: translateError makes of an engine timeout DeadlineExceeded, of a
\* version conflict (the status code of an elastic.Error, or the type
\* version_conflict_engine_exception of an elastic.ErrorDetails) Conflict and
\* of a not-found NotFound, and reports it handled; every other error it
\* leaves as it is and reports unhandled.
C16_TranslateError ==
    last.op = "translateError"
    => LET e == last.args[1]
           handled == last.resp[1]
       IN  IF e.kind = "elastic.Error" /\ e.status = 408
           THEN handled /\ last.err = DeadlineExceeded
           ELSE IF \/ e.kind = "elastic.Error" /\ e.status = 409
                   \/ e.kind = "elastic.ErrorDetails"
                        /\ e.type = "version_conflict_engine_exception"
           THEN handled /\ last.err = ErrConflict
           ELSE IF e.kind = "elastic.Error" /\ e.status = 404
           THEN handled /\ last.err = ErrNotFound
           ELSE ~handled /\ last.err = e

\* A conflict known by its error type alone.
C16_Witness ==
    /\ last.op = "translateError"
    /\ last.args[1] = ErrorDetails("version_conflict_engine_exception")
    /\ last.resp[1]
    /\ last.err = ErrConflict

\* In the state in which buildItem(id, buildDoc(item)) returns: the payload of
\* the item has neither reserved key.
NoReservedKey == {etagField, updatedField} \cap DOMAIN last.args[1].Payload = {}

\* C17: for an item with the identifier id and a payload without a reserved
\* key, buildItem(id, buildDoc(item)) is the item with the identifier key of
\* the payload set to id: the item itself when its payload holds its
\* identifier.
C17_RoundTrip ==
    (last.op = "buildItem" /\ last.args[1].ID = StringID(last.args[2]) /\ NoReservedKey)
    => LET i == last.args[1]
           back == last.resp[2]
       IN  /\ back = [i EXCEPT !.Payload = Put(@, "id", i.ID)]
           /\ ("id" \in DOMAIN i.Payload /\ i.Payload["id"] = i.ID) => back = i

\* An item with a version tag, a time and its identifier in the payload.
C17_Witness ==
    /\ last.op = "buildItem"
    /\ last.args[1].ID = StringID(last.args[2])
    /\ NoReservedKey
    /\ last.args[1].ETag = TB
    /\ last.args[1].Updated = Now
    /\ "id" \in DOMAIN last.args[1].Payload
    /\ last.args[1].Payload["id"] = last.args[1].ID
    /\ last.resp[2] = last.args[1]

\* C18: getQuery gives no query for a predicate without expressions, the
\* translation of the expression itself for a predicate of one, and for more
\* one boolean query whose must clauses are the translations of the
\* expressions in their order.
C18_TopLevel ==
    (last.op = "getQuery" /\ last.err = Nil)
    => LET pred == last.args[1].Predicate
           qry == last.resp[1]
           One(k) == translatePredicate(<<pred[k]>>).qs[1]
       IN  /\ Len(pred) = 0 => qry = NilQuery
           /\ Len(pred) = 1 => qry = One(1)
           /\ Len(pred) > 1
              => qry = [q |-> "bool", must |-> [k \in 1..Len(pred) |-> One(k)],
                        should |-> <<>>, mustNot |-> <<>>]

C18_Witness ==
    /\ last.op = "getQuery"
    /\ last.err = Nil
    /\ Len(last.args[1].Predicate) = 2
    /\ last.resp[1].q = "bool"
    /\ Len(last.resp[1].must) = 2
    /\ last.resp[1].must[1].q # last.resp[1].must[2].q

\* The engine field of an exact match, spelled out.
ExactField(f) == IF f = "id" THEN "_id" ELSE f \o ".keyword"

C20_ComparisonLeaves ==
    (last.op = "getQuery" /\ Len(last.args[1].Predicate) = 1)
    => LET e == last.args[1].Predicate[1]
           qry == last.resp[1]
           range(from, to, lower, upper) ==
               [q |-> "range", name |-> IF e.field = "id" THEN "_id" ELSE e.field,
                from |-> from, to |-> to, includeLower |-> lower, includeUpper |-> upper]
       IN  /\ e.op = "GreaterThan"
              => last.err = Nil /\ qry = range(e.value, GoNil, FALSE, TRUE)
           /\ e.op = "GreaterOrEqual"
              => last.err = Nil /\ qry = range(e.value, GoNil, TRUE, TRUE)
           /\ e.op = "LowerThan"
              => last.err = Nil /\ qry = range(GoNil, e.value, TRUE, FALSE)
           /\ e.op = "LowerOrEqual"
              => last.err = Nil /\ qry = range(GoNil, e.value, TRUE, TRUE)

C20_Witness ==
    /\ last.op = "getQuery"
    /\ Len(last.args[1].Predicate) = 1
    /\ last.args[1].Predicate[1].op = "GreaterThan"
    /\ last.args[1].Predicate[1].field = "foo"
    /\ last.resp[1].q = "range"
    /\ last.resp[1].name = "foo"
    /\ ~last.resp[1].includeLower
    /\ last.resp[1].to = GoNil

\* The query a supported expression stands for: a boolean query of the
\* queries of its children for a composite, the query of the leaf for a leaf.
RECURSIVE Translation(_)
Translation(e) ==
    IF e.op = "And"
    THEN [q |-> "bool", must |-> [k \in 1..Len(e.exps) |-> Translation(e.exps[k])],
          should |-> <<>>, mustNot |-> <<>>]
    ELSE IF e.op = "Or"
    THEN [q |-> "bool", must |-> <<>>,
          should |-> [k \in 1..Len(e.exps) |-> Translation(e.exps[k])],
          mustNot |-> <<>>]
    ELSE translatePredicate(<<e>>).qs[1]

\* C21: an And translates to one boolean query whose must clauses are the
\* translations of its children in their order and nothing else, an Or to one
\* whose should clauses are; the children are translated the same way.
C21_Composites ==
    (last.op = "getQuery" /\ Len(last.args[1].Predicate) = 1
       /\ last.args[1].Predicate[1].op \in {"And", "Or"}
       /\ ~HasUnsupported(last.args[1].Predicate))
    => (last.err = Nil /\ last.resp[1] = Translation(last.args[1].Predicate[1]))

\* An Or of a leaf and an And of two leaves.
C21_Witness ==
    /\ last.op = "getQuery"
    /\ last.err = Nil
    /\ Len(last.args[1].Predicate) = 1
    /\ last.args[1].Predicate[1].op = "Or"
    /\ last.resp[1].q = "bool"
    /\ last.resp[1].must = <<>>
    /\ Len(last.resp[1].should) = 2
    /\ last.resp[1].should[1].q = "term"
    /\ last.resp[1].should[2].q = "bool"
    /\ Len(last.resp[1].should[2].must) = 2

\* C22: the translation of a predicate that holds an expression without a case
\* in translatePredicate, at top level or below And and Or, fails with the
\* NotImplemented error itself and gives no query, whatever the expressions
\* before and after it; the translation of any other predicate does not fail.
C22_UnsupportedFails ==
    last.op = "getQuery"
    => IF HasUnsupported(last.args[1].Predicate)
       THEN last.err = ErrNotImplemented /\ last.resp[1] = NilQuery
       ELSE last.err = Nil

\* The unsupported expression lies below an Or below an And, after a leaf
\* that has a translation.
C22_Witness ==
    /\ last.op = "getQuery"
    /\ last.err = ErrNotImplemented
    /\ Len(last.args[1].Predicate) = 1
    /\ last.args[1].Predicate[1].op = "And"
    /\ Len(last.args[1].Predicate[1].exps) = 2
    /\ last.args[1].Predicate[1].exps[1].op = "Equal"
    /\ last.args[1].Predicate[1].exps[2].op = "Or"
    /\ last.resp[1] = NilQuery

C24_FastPathSame ==
    (last.op = "get" /\ last.ctx.err = Nil /\ last.calls[1].status \notin RequestFaults)
    => LET q == last.args[1]
           id == q.Predicate[1].value.v
           general == FindDo(store, q, last.ctx, 0)
       IN  /\ last.err = general.err
           /\ last.resp = general.resp
           /\ last.err = Nil
           /\ IF store[id].exists
              THEN last.resp[1].Total = 1 /\ Len(last.resp[1].Items) = 1
              ELSE last.resp[1] = ItemList(0, <<>>)

C26_TagCheck ==
    [][/\ \A p \in Procs :
            (op[p].kind = "idle" /\ op'[p].kind # "idle")
            => /\ StoredTag(store[OpId(op'[p])]) = ArgTag(op'[p])
               /\ op'[p].ver = store[OpId(op'[p])].ver
       /\ (FetchReturn /\ last'.calls[1].status = 200)
          => /\ last'.err = ErrConflict
             /\ StoredTag(store[ArgId(last')]) # ArgTag(last')]_vars

\* C27: when Update(newItem, original) has returned without error, the stored
\* version tag is the tag of newItem, and a fetch of Update or Delete that
\* presents the tag of original, if it is another tag, returns Conflict.
C27_UpdateMovesTag ==
    (last.op = "Update" /\ last.err = Nil)
    => LET item == last.args[1]
           original == last.args[2]
           slot == store[original.ID.v]
       IN  /\ slot.exists
           /\ StoredTag(slot) = item.ETag
           /\ original.ETag # item.ETag
              => validateEtag(slot, original.ETag, Background, 0).err = ErrConflict

\* What the operations that follow a Delete of the identifier id return, the
\* documents being st and the search seeing view: the fetch of an Update or a
\* Delete, MultiGet, and an Insert of an item with the identifier.
FetchNotFound(id) ==
    \A tag \in TagsOrNone :
        validateEtag(store[id], tag, Background, 0).err = ErrNotFound

MultiGetEmpty(id) ==
    LET r == MultiGetDo(store, <<StringID(id)>>, Background, 0)
    IN  r.err = Nil /\ r.resp = <<(<<>>)>>

FindEmpty(id) ==
    LET byId == FindDo(seen, MkQuery(<<Leaf("Equal", "id", GoString(id))>>, NoWindow),
                       Background, 0)
        all == FindDo(seen, MkQuery(<<>>, NoWindow), Background, 0)
    IN  /\ byId.err = Nil
        /\ byId.resp = <<ItemList(0, <<>>)>>
        /\ all.err = Nil
        /\ \A k \in 1..Len(all.resp[1].Items) : all.resp[1].Items[k].ID # StringID(id)

InsertStores(id) ==
    LET item == MkItem(StringID(id), T1, 1)
        bulk == BulkDo(store, InsertRequests(<<item>>).reqs, Background, 0, <<FALSE>>)
    IN  /\ InsertError(bulk.err, bulk.resp) = Nil
        /\ bulk.store[id] = Doc(store[id].ver + 1, buildDoc(item))

\* C28 as stated: when Delete has returned without error the document is
\* absent: the fetch of an Update or Delete of the identifier returns NotFound
\* whatever the tag, MultiGet of the identifier returns no item, Find by the
\* identifier returns the empty list and Find of everything lists no item
\* with the identifier, and an Insert of an item with the identifier stores
\* it and returns no error.
C28_DeletedIsAbsent ==
    (last.op = "Delete" /\ last.err = Nil)
    => /\ ~store[ArgId(last)].exists
       /\ FetchNotFound(ArgId(last))
       /\ MultiGetEmpty(ArgId(last))
       /\ FindEmpty(ArgId(last))
       /\ InsertStores(ArgId(last))

\* C28: when Delete has returned without error the document is gone from the
\* index: the fetch of an Update or Delete returns NotFound, MultiGet returns
\* no item and an Insert stores the item.  Find no longer returns it once the
\* search sees the index as it is, which it does at the return of the Delete
\* when the handler's Refresh is "true".
C28_DeletedIsAbsentOnceRefreshed ==
    (last.op = "Delete" /\ last.err = Nil)
    => /\ ~store[ArgId(last)].exists
       /\ FetchNotFound(ArgId(last))
       /\ MultiGetEmpty(ArgId(last))
       /\ InsertStores(ArgId(last))
       /\ h.Refresh = "true" => seen = View(store)
       /\ seen = View(store) => FindEmpty(ArgId(last))

\* A Delete that the engine applied, on a handler that asks for the refresh.
C28_Witness ==
    /\ last.op = "Delete"
    /\ last.err = Nil
    /\ Len(last.calls) = 2
    /\ last.calls[2].status = 200
    /\ ~store[ArgId(last)].exists
    /\ h.Refresh = "true"
    /\ seen = View(store)

\* The request of the write in the calls of an Update or Delete that returns.
IsWrite(call) == call.api \in {"update", "delete"}

\* The steps of the protocol of Update and Delete: caller p goes on from its
\* fetch to its write, and caller p returns from its write.
FetchPassed(p) == op[p].kind = "idle" /\ op'[p].kind # "idle"

WriteReturned(p) ==
    /\ op[p].kind # "idle"
    /\ op'[p].kind = "idle"
    /\ \E k \in 1..Len(last'.calls) : IsWrite(last'.calls[k])

\* C29: an Update or Delete goes on to its write only after its fetch
\* returned a stored document whose version tag is the tag the caller
\* supplied; the write is the second request of the operation, after one
\* answered fetch, and carries the engine version that fetch returned; an
\* Update or Delete that returns without having fetched has written nothing.
C29_WriteAfterMatchingFetch ==
    [][/\ \A p \in Procs :
            FetchPassed(p)
            => /\ Len(op'[p].calls) = 1
               /\ op'[p].calls[1].api = "get"
               /\ op'[p].calls[1].status = 200
               /\ store[OpId(op'[p])].exists
               /\ op'[p].ver = store[OpId(op'[p])].ver
               /\ StoredTag(store[OpId(op'[p])]) = ArgTag(op'[p])
       /\ \A p \in Procs :
            WriteReturned(p)
            => /\ last'.op = op[p].kind
               /\ last'.args = op[p].args
               /\ Len(last'.calls) = 2
               /\ last'.calls[1] = op[p].calls[1]
               /\ ~IsWrite(last'.calls[1])
               /\ last'.calls[2].ver = op[p].ver
       /\ (last = NoReturn /\ last'.op \in {"Update", "Delete"}
             /\ \A p \in Procs : op[p].kind = "idle")
          => (store' = store /\ \A k \in 1..Len(last'.calls) : ~IsWrite(last'.calls[k]))]_vars

\* C30: when the context of the caller carries a deadline, every request that
\* Insert, Update, Delete, Find or MultiGet sent to the engine, the fetch of
\* Update and Delete included, carries the timeout parameter.
C30_DeadlineIsTimeout ==
    (last.op \in {"Insert", "Update", "Delete", "Find", "MultiGet"} /\ last.ctx.deadline)
    => \A k \in 1..Len(last.calls) : last.calls[k].sent => last.calls[k].timeout

\* The request an operation that returns made last, and whether the engine
\* answered it with the status s.
LastCall(r) == r.calls[Len(r.calls)]

Answered(r, s) == Len(r.calls) > 0 /\ LastCall(r).sent /\ LastCall(r).status = s

\* C31: whatever the operation and whichever of its requests the engine
\* fails, the operation returns DeadlineExceeded for a timeout (408), Conflict
\* for a version conflict (409, or the first failed entry of a bulk response
\* being one), NotFound for a not-found (404), and for any other failure an
\* opaque error that is none of the three.
C31_UniformClassification ==
    last.op \in {"Insert", "Update", "Delete", "Find", "MultiGet"}
    => /\ Answered(last, 408) => last.err = DeadlineExceeded
       /\ Answered(last, 409) => last.err = ErrConflict
       /\ Answered(last, 404) => last.err = ErrNotFound
       /\ Answered(last, 500) => last.err.kind = "opaque"
       /\ (last.op = "Insert" /\ Answered(last, 200) /\ Failed(last.resp) # <<>>)
          => IF Failed(last.resp)[1].status = 409
             THEN last.err = ErrConflict
             ELSE last.err.kind = "opaque"

\* The engine refuses the write of a Delete with a version conflict.
C31_Witness ==
    /\ last.op = "Delete"
    /\ Len(last.calls) = 2
    /\ Answered(last, 409)
    /\ last.err = ErrConflict

\* The requests of the sequence calls are, in this order, requests of the
\* kinds apis, or the first of them.
RequestsAre(calls, apis) ==
    /\ Len(calls) <= Len(apis)
    /\ \A k \in 1..Len(calls) : calls[k].api = apis[k]

\* C32: an operation makes a bounded number of requests and repeats none:
\* Insert, Find and MultiGet make at most one request, Update and Delete at
\* most one fetch and after it at most one write; a request that the engine
\* failed (a timeout and a conflict among the failures) is the last request
\* of its operation.
C32_NoRetry ==
    /\ last.op = "Insert" => RequestsAre(last.calls, <<"bulk">>)
    /\ last.op = "Find" => RequestsAre(last.calls, <<"search">>)
    /\ last.op = "MultiGet" => RequestsAre(last.calls, <<"mget">>)
    /\ last.op = "Update" => RequestsAre(last.calls, <<"get", "update">>)
    /\ last.op = "Delete" => RequestsAre(last.calls, <<"get", "delete">>)
    /\ \A k \in 1..(Len(last.calls) - 1) : last.calls[k].status = 200
    /\ \A p \in Procs :
          op[p].kind # "idle"
          => (RequestsAre(op[p].calls, <<"get">>) /\ op[p].calls[1].status = 200)

\* The engine timed out the write of an Update: the Update returns.
C32_Witness ==
    /\ last.op = "Update"
    /\ Len(last.calls) = 2
    /\ Answered(last, 408)
    /\ last.err = DeadlineExceeded
    /\ op[Caller].kind = "idle"

\* An operation returns in this step, with arguments of which one has an
\* identifier that is no string.
NonStringReturn ==
    /\ last = NoReturn
    /\ \/ /\ last'.op \in {"Update", "Delete"}
          /\ \E k \in 1..Len(last'.args) : ~IsStringID(last'.args[k])
       \/ /\ last'.op = "MultiGet"
          /\ \E k \in 1..Len(last'.args) : last'.args[k].t # "string"

C34_BuildDoc ==
    last.op = "buildItem"
    => LET i == last.args[1]
           doc == last.resp[1]
           tagged == i.ETag # <<>>
           timed == i.Updated # 0
       IN  /\ DOMAIN doc = ((DOMAIN i.Payload) \ {"id"})
                              \cup (IF tagged THEN {etagField} ELSE {})
                              \cup (IF timed THEN {updatedField} ELSE {})
           /\ \A k \in DOMAIN doc :
                 doc[k] = IF k = etagField /\ tagged THEN GoString(i.ETag)
                          ELSE IF k = updatedField /\ timed THEN GoTime(i.Updated)
                          ELSE i.Payload[k]
           /\ "id" \notin DOMAIN doc
           /\ NoReservedKey
              => /\ etagField \in DOMAIN doc <=> tagged
                 /\ updatedField \in DOMAIN doc <=> timed

\* An item with its identifier in the payload, a time and no version tag.
C34_Witness ==
    /\ last.op = "buildItem"
    /\ "id" \in DOMAIN last.args[1].Payload
    /\ "foo" \in DOMAIN last.args[1].Payload
    /\ NoReservedKey
    /\ last.args[1].ETag = <<>>
    /\ last.args[1].Updated = Now
    /\ DOMAIN last.resp[1] = {"foo", updatedField}

\* C35: buildItem returns, for every identifier and document, an item with
\* that identifier whose payload holds the fields of the document other than
\* _etag and _updated, and the key "id" (with the identifier, the document
\* having no field "id"); the version tag is the field _etag when that is a
\* string and else empty, the time is the field _updated when that is a time
\* and else zero.
C35_BuildItem ==
    last.op = "buildItem"
    => LET id == last.args[2]
           d == last.resp[1]
           item == last.resp[2]
       IN  /\ last.err = Nil
           /\ item.ID = StringID(id)
           /\ DOMAIN item.Payload = ((DOMAIN d) \ {etagField, updatedField}) \cup {"id"}
           /\ \A k \in (DOMAIN d) \ {etagField, updatedField} : item.Payload[k] = d[k]
           /\ "id" \notin DOMAIN d => item.Payload["id"] = GoString(id)
           /\ item.ETag = IF etagField \in DOMAIN d /\ d[etagField].t = "string"
                           THEN d[etagField].v ELSE <<>>
           /\ item.Updated = IF updatedField \in DOMAIN d /\ d[updatedField].t = "time.Time"
                              THEN d[updatedField].v ELSE 0

\* A document whose field _etag is a number: the item has no version tag.
C35_Witness ==
    /\ last.op = "buildItem"
    /\ etagField \in DOMAIN last.resp[1]
    /\ last.resp[1][etagField].t = "float64"
    /\ last.resp[2].ETag = <<>>
    /\ etagField \notin DOMAIN last.resp[2].Payload

\* Caller p returns from its write in this step, the context live and the
\* request not failed by the engine as a whole.
WriteDecided(p) ==
    /\ op[p].kind # "idle"
    /\ op'[p].kind = "idle"
    /\ Len(last'.calls) = 2
    /\ last'.calls[2].sent
    /\ last'.calls[2].status \notin RequestFaults

\* C36: of the Updates and Deletes that fetched the same version of a
\* document, the first to write is applied and returns no error (so the
\* conflicts cannot fail them all), a write is refused only when the document
\* is no longer at the version fetched, and every one of them returns.
C36_ContentionProgress ==
    /\ [][\A p \in Procs :
            WriteDecided(p)
            => IF store[OpId(op[p])].exists /\ store[OpId(op[p])].ver = op[p].ver
               THEN /\ last'.err = Nil
                    /\ last'.calls[2].status = 200
                    /\ store'[OpId(op[p])].ver = op[p].ver + 1
               ELSE /\ last'.err \in {ErrConflict, ErrNotFound}
                    /\ store'[OpId(op[p])].exists = store[OpId(op[p])].exists]_vars
    /\ \A p \in Procs : (op[p].kind # "idle") ~> (op[p].kind = "idle")

\* Two callers fetched the same version; the write of one was applied and it
\* returns, the other has yet to write.
C36_Witness ==
    /\ last.op \in {"Update", "Delete"}
    /\ last.err = Nil
    /\ Len(last.calls) = 2
    /\ \E q \in Procs :
         /\ op[q].kind # "idle"
         /\ op[q].lost
         /\ OpId(op[q]) = ArgId(last)

\* The engine stored the item of an Insert under the identifier s in this step.
CreatedByInsert(s) ==
    /\ InsertReturn
    /\ \E k \in 1..Len(last'.resp) :
         last'.args[k].ID = StringID(s) /\ last'.resp[k].status = 201

\* C37: a document comes to exist only in the step of an Insert in which the
\* engine stored an item with its identifier; the write of an Update leaves
\* a missing document missing, whatever was written or deleted between its
\* fetch and its write, and no other step than the write of a Delete makes
\* a document cease to exist.
C37_OnlyInsertCreates ==
    [][\A s \in StrIds :
         /\ (~store[s].exists /\ store'[s].exists) => CreatedByInsert(s)
         /\ (store[s].exists /\ ~store'[s].exists)
            => (last'.op = "Delete" /\ ArgId(last') = s /\ last'.err = Nil)
         /\ (last = NoReturn /\ last'.op = "Update")
            => store'[s].exists = store[s].exists]_vars

\* An Update that fetched the document writes after the Delete of another
\* caller was applied: NotFound, and the document stays deleted.
C37_Witness ==
    /\ last.op = "Update"
    /\ Len(last.calls) = 2
    /\ last.calls[2].status = 404
    /\ last.err = ErrNotFound
    /\ ~store[ArgId(last)].exists

\* The string identifiers of the items an operation was given.
GivenIds(r) == {r.args[k].ID.v : k \in {j \in 1..Len(r.args) : IsStringID(r.args[j])}}

\* An operation returns in this step.
Returns(names) == last = NoReturn /\ last'.op \in names

C38_WitnessTagCheck ==
    /\ last.op = "Delete"
    /\ last.err = ErrConflict
    /\ Len(last.calls) = 1
    /\ store[ArgId(last)].exists

\* The items the Find or MultiGet that returned as r hands to its caller.
ItemsOf(r) ==
    IF r.op = "Find" THEN {r.resp[1].Items[k] : k \in 1..Len(r.resp[1].Items)}
    ELSE {r.resp[1][k] : k \in 1..Len(r.resp[1])}

\* The document src is the one Insert stores for the item it.
InsertedAs(src, it) == src = buildDoc(it)

\* C39: every item a Find or a MultiGet returns is the item that was
\* inserted under its identifier: the same identifier, version tag,
\* last-modified value and payload.
C39_RoundTrip ==
    (last.op \in {"Find", "MultiGet"} /\ last.err = Nil)
    => \A r \in ItemsOf(last) :
         \A batch \in RaceBatches :
            (batch[1].ID = r.ID
             /\ InsertedAs((IF last.op = "Find" THEN seen ELSE store)[r.ID.v].src, batch[1]))
            => r = batch[1]

====
